---------------------------- MODULE Spec2Model ----------------------------
(***************************************************************************)
(* Seven Gates cellular automaton (python/seven_gates.py).                 *)
(*                                                                         *)
(* The model is one Python process that exercises the module through one   *)
(* of its entry points (simulate, neighbor_coords, render, or the CLI      *)
(* main); simulate and the CLI may then be run a second time with the same *)
(* arguments, so that two independent runs can be compared.                *)
(*                                                                         *)
(* Python lists are objects on a heap (a sequence of lists, an address is  *)
(* an index), AutomatonState instances are objects in a table, so that     *)
(* aliasing and in-place mutation are expressible.  Python strings are     *)
(* immutable values: sequences of one-character strings.  Coordinates are  *)
(* 0-based as in the source; a list element k is read at index k + 1.      *)
(***************************************************************************)
EXTENDS Integers, Sequences, FiniteSets, TLC

VARIABLES
    args,      \* the arguments of the run: call, width, height, seed, steps, frames, cells, row, col
    heap,      \* the list objects: address -> sequence of ints (a row) or of addresses (cells)
    objs,      \* the AutomatonState objects: reference -> [width, height, cells]
    initial,   \* reference of the grid the caller built (0: none yet)
    state,     \* the local `state` of simulate / of _run_cli's frames loop (0: none)
    i,         \* iterations of the stepping loop done so far
    final,     \* the reference simulate returned (0: not returned)
    pc,        \* position of the run
    stdout,    \* the strings print was called with, in order
    coords,    \* the pairs neighbor_coords yielded, in order
    output,    \* the string render returned to a library caller
    run,       \* 1: first run, 2: second run with the same arguments
    first      \* what the first run produced (kept for the second run)

vars == <<args, heap, objs, initial, state, i, final, pc, stdout, coords, output, run, first>>

---------------------------------------------------------------------------
(* Bounds of the model *)

MaxWidth == 4
MaxHeight == 3
MaxCells == 3
MaxSteps == 4
MaxSeed == 7

---------------------------------------------------------------------------
(* Program constants *)

STATE_RANGE == 7
ACTIVE_THRESHOLD == 4
PALETTE == <<" ", ".", ":", "=", "*", "#", "@">>

States == 0 .. (STATE_RANGE - 1)

---------------------------------------------------------------------------
(* random.Random(seed).randrange(STATE_RANGE): the first draws of CPython's *)
(* generator for each seed of the model, in draw order.                     *)

RandrangeDraws ==
    <<  <<6, 3, 6, 3, 0, 2, 4, 3, 3, 6, 6, 2, 3, 2, 4, 1, 4, 1, 2, 1>>,
        <<1, 4, 6, 6, 6, 0, 2, 0, 3, 6, 3, 3, 5, 3, 6, 1, 0, 3, 0, 6>>,
        <<6, 6, 0, 0, 0, 2, 6, 1, 5, 6, 5, 6, 2, 2, 4, 1, 4, 0, 4, 5>>,
        <<1, 4, 4, 1, 2, 4, 3, 5, 4, 0, 4, 0, 6, 3, 2, 4, 1, 1, 5, 3>>,
        <<1, 2, 0, 5, 3, 3, 1, 0, 0, 0, 3, 4, 2, 6, 6, 0, 1, 4, 4, 2>>,
        <<4, 2, 5, 2, 6, 5, 6, 5, 5, 4, 0, 6, 3, 6, 1, 5, 0, 1, 0, 2>>,
        <<6, 4, 6, 0, 3, 6, 2, 0, 0, 1, 5, 4, 3, 6, 5, 2, 2, 6, 0, 2>>,
        <<2, 1, 3, 5, 0, 0, 6, 4, 0, 2, 4, 0, 4, 1, 0, 0, 3, 3, 0, 1>>,
        <<1, 2, 3, 1, 1, 5, 0, 0, 1, 1, 6, 4, 1, 3, 5, 0, 3, 3, 3, 3>>  >>

\* random.Random() without the seed: seeded from the clock, which differs from run to run
RandomUnseeded(seed) == [seed |-> run, pos |-> 0]

\* rng = random.Random(seed): a generator object whose sequence is fixed by seed
Random(seed) == [seed |-> seed, pos |-> 0]

\* rng.randrange(STATE_RANGE): <<the value drawn, the generator afterwards>>
randrange(rng) ==
    <<RandrangeDraws[rng.seed + 1][rng.pos + 1], [rng EXCEPT !.pos = @ + 1]>>

---------------------------------------------------------------------------
(* _wrap, neighbor_coords *)

\* _wrap that clamps to the nearest edge
_wrapClamp(value, max_value) ==
    IF value < 0 THEN 0 ELSE IF value >= max_value THEN max_value - 1 ELSE value

_wrap(value, max_value) == value % max_value

Deltas == << <<-1, 0>>, <<1, 0>>, <<0, -1>>, <<0, 1>> >>

\* the pairs the generator yields, in order
neighbor_coords(self, row, col) ==
    [k \in 1 .. 4 |->
        <<_wrap(row + Deltas[k][1], self.height), _wrap(col + Deltas[k][2], self.width)>>]

---------------------------------------------------------------------------
(* step *)

\* self.cells[r][c], read from heap h
Cell(h, self, r, c) == h[h[self.cells][r + 1]][c + 1]

RECURSIVE SumActiveStrict(_, _, _, _)
\* SumActive with > ACTIVE_THRESHOLD for >= ACTIVE_THRESHOLD
SumActiveStrict(h, self, pairs, k) ==
    IF k > Len(pairs) THEN 0
    ELSE (IF Cell(h, self, pairs[k][1], pairs[k][2]) > ACTIVE_THRESHOLD THEN 1 ELSE 0)
         + SumActiveStrict(h, self, pairs, k + 1)

RECURSIVE SumActive(_, _, _, _)
\* sum(1 for r, c in <the pairs from k on> if self.cells[r][c] >= ACTIVE_THRESHOLD)
SumActive(h, self, pairs, k) ==
    IF k > Len(pairs) THEN 0
    ELSE (IF Cell(h, self, pairs[k][1], pairs[k][2]) >= ACTIVE_THRESHOLD THEN 1 ELSE 0)
         + SumActive(h, self, pairs, k + 1)

active_neighbors(h, self, row, col) ==
    SumActive(h, self, neighbor_coords(self, row, col), 1)

\* NextValue with the increment and decrement not reduced modulo STATE_RANGE
NextValueUnreduced(current, active) ==
    IF active >= 2 THEN current + 1
    ELSE IF active = 0 THEN current - 1
    ELSE current

\* the value appended to next_row for a cell holding current
NextValue(current, active) ==
    IF active >= 2 THEN (current + 1) % STATE_RANGE
    ELSE IF active = 0 THEN (current - 1) % STATE_RANGE
    ELSE current

\* StepCell that also stores the new value into self.cells[row][col]
StepCellInPlace(h, self, row, col, nr) ==
    LET v == NextValue(Cell(h, self, row, col), active_neighbors(h, self, row, col))
    IN  [h EXCEPT ![nr] = Append(@, v),
                  ![h[self.cells][row + 1]] = [@ EXCEPT ![col + 1] = v]]

\* one iteration of the inner loop: next_row (at address nr) gets one more value
StepCell(h, self, row, col, nr) ==
    [h EXCEPT ![nr] =
        Append(@, NextValue(Cell(h, self, row, col), active_neighbors(h, self, row, col)))]

RECURSIVE StepColsShort(_, _, _, _, _)
\* StepCols over range(self.width - 1): the last column is left out
StepColsShort(h, self, row, col, nr) ==
    IF col >= self.width - 1 THEN h
    ELSE StepColsShort(StepCell(h, self, row, col, nr), self, row, col + 1, nr)

RECURSIVE StepCols(_, _, _, _, _)
\* for col in range(self.width), from col on
StepCols(h, self, row, col, nr) ==
    IF col >= self.width THEN h
    ELSE StepCols(StepCell(h, self, row, col, nr), self, row, col + 1, nr)

\* StepRow that appends self.cells[row] itself when the new row holds the same values
StepRowReuse(h, self, row, nc) ==
    LET nr == Len(h) + 1
        filled == StepCols(Append(h, <<>>), self, row, 0, nr)
        old == h[self.cells][row + 1]
    IN  [filled EXCEPT ![nc] = Append(@, IF filled[nr] = h[old] THEN old ELSE nr)]

\* one iteration of the outer loop: a new list next_row, filled, appended to next_cells (at nc)
StepRow(h, self, row, nc) ==
    LET nr == Len(h) + 1
        filled == StepCols(Append(h, <<>>), self, row, 0, nr)
    IN  [filled EXCEPT ![nc] = Append(@, nr)]

RECURSIVE StepRows(_, _, _, _)
\* for row in range(self.height), from row on
StepRows(h, self, row, nc) ==
    IF row >= self.height THEN h
    ELSE StepRows(StepRow(h, self, row, nc), self, row + 1, nc)

\* self.step(): the heap afterwards and the new AutomatonState object
step(h, self) ==
    LET nc == Len(h) + 1
    IN  [heap |-> StepRows(Append(h, <<>>), self, 0, nc),
         obj  |-> [width |-> self.width, height |-> self.height, cells |-> nc]]

---------------------------------------------------------------------------
(* render *)

RECURSIVE JoinChars(_, _)
\* "".join(PALETTE[state] for state in row), from element k on
JoinChars(row, k) ==
    IF k > Len(row) THEN <<>> ELSE <<PALETTE[row[k] + 1]>> \o JoinChars(row, k + 1)

RECURSIVE JoinLinesTerminated(_, _, _)
\* JoinLines with sep after every line, the last one too
JoinLinesTerminated(sep, lines, k) ==
    IF k > Len(lines) THEN <<>>
    ELSE lines[k] \o sep \o JoinLinesTerminated(sep, lines, k + 1)

RECURSIVE JoinLines(_, _, _)
\* sep.join(lines), from line k on
JoinLines(sep, lines, k) ==
    IF k > Len(lines) THEN <<>>
    ELSE IF k = Len(lines) THEN lines[k]
    ELSE lines[k] \o sep \o JoinLines(sep, lines, k + 1)

\* self.render(): the string returned
render(h, self) ==
    LET lines == [r \in 1 .. Len(h[self.cells]) |-> JoinChars(h[h[self.cells][r]], 1)]
    IN  JoinLines(<<"\n">>, lines, 1)

---------------------------------------------------------------------------
(* AutomatonState.random *)

RECURSIVE RandomCols(_, _, _, _, _)
\* [rng.randrange(STATE_RANGE) for _ in range(width)], from column col on, into the list at nr
RandomCols(h, rng, col, w, nr) ==
    IF col >= w THEN [heap |-> h, rng |-> rng]
    ELSE LET d == randrange(rng)
         IN  RandomCols([h EXCEPT ![nr] = Append(@, d[1])], d[2], col + 1, w, nr)

RECURSIVE RandomRows(_, _, _, _, _, _)
\* [[...] for _ in range(height)], from row on, into the list at nc
RandomRows(h, rng, row, w, ht, nc) ==
    IF row >= ht THEN [heap |-> h, rng |-> rng]
    ELSE LET nr == Len(h) + 1
             r  == RandomCols(Append(h, <<>>), rng, 0, w, nr)
         IN  RandomRows([r.heap EXCEPT ![nc] = Append(@, nr)], r.rng, row + 1, w, ht, nc)

\* AutomatonState.random(width, height, seed): the heap afterwards and the new object
random(h, w, ht, seed) ==
    LET nc == Len(h) + 1
        r  == RandomRows(Append(h, <<>>), Random(seed), 0, w, ht, nc)
    IN  [heap |-> r.heap, obj |-> [width |-> w, height |-> ht, cells |-> nc]]

---------------------------------------------------------------------------
(* The strings _run_cli prints *)

Digits == <<"0", "1", "2", "3", "4", "5", "6", "7", "8", "9">>

RECURSIVE Str(_)
\* the decimal text of n >= 0, as an f-string formats it
Str(n) == IF n < 10 THEN <<Digits[n + 1]>> ELSE Str(n \div 10) \o <<Digits[(n % 10) + 1]>>

\* "Initial state:\n"
InitialHeader ==
    <<"I", "n", "i", "t", "i", "a", "l", " ", "s", "t", "a", "t", "e", ":", "\n">>

\* f"\nStep {step_index}:\n"
StepHeader(step_index) ==
    <<"\n", "S", "t", "e", "p", " ">> \o Str(step_index) \o <<":", "\n">>

---------------------------------------------------------------------------
(* The arguments a run may be started with *)

Shapes == {d \in (1 .. MaxCells) \X (1 .. MaxCells) : d[1] * d[2] <= MaxCells}

\* the uniform grid of width w and height ht holding v, given as a list of rows
Uniform(w, ht, v) == [r \in 1 .. ht |-> [c \in 1 .. w |-> v]]

NoArgs ==
    [call |-> "none", width |-> 0, height |-> 0, seed |-> 0, steps |-> 0,
     frames |-> FALSE, cells |-> <<>>, row |-> 0, col |-> 0]

\* a caller builds AutomatonState(width, height, cells) itself from the list of rows g
DirectArgs(g) == [NoArgs EXCEPT !.width = Len(g[1]), !.height = Len(g), !.cells = g]

\* and then makes one call on it
DirectCallOn(g) ==
    \/ \E n \in 0 .. MaxSteps :
          args = [DirectArgs(g) EXCEPT !.call = "simulate", !.steps = n]
    \/ \E r \in 0 .. Len(g) - 1, c \in 0 .. Len(g[1]) - 1 :
          args = [DirectArgs(g) EXCEPT !.call = "neighbor_coords", !.row = r, !.col = c]
    \/ args = [DirectArgs(g) EXCEPT !.call = "render"]

\* the grids a caller builds: every grid of at most MaxCells cells, and the uniform
\* grids of every shape up to MaxWidth x MaxHeight
DirectCall ==
    \/ \E d \in Shapes : \E g \in [1 .. d[2] -> [1 .. d[1] -> States]] : DirectCallOn(g)
    \/ \E w \in 1 .. MaxWidth, ht \in 1 .. MaxHeight, v \in States :
          DirectCallOn(Uniform(w, ht, v))

\* the command line: --width --height --steps --seed [--frames]
MainCall ==
    \E w \in 1 .. MaxWidth, ht \in 1 .. MaxHeight, sd \in 0 .. MaxSeed,
       n \in 0 .. MaxSteps, f \in BOOLEAN :
        args = [NoArgs EXCEPT !.call = "main", !.width = w, !.height = ht, !.seed = sd,
                              !.steps = n, !.frames = f]

---------------------------------------------------------------------------
(* The state of a process about to run with arguments a *)

\* AutomatonState(width, height, cells) built by the caller: the rows, then the list of rows
DirectHeap(a) ==
    IF a.call = "main" THEN <<>>
    ELSE [k \in 1 .. a.height + 1 |->
            IF k <= a.height THEN a.cells[k] ELSE [r \in 1 .. a.height |-> r]]

DirectObjs(a) ==
    IF a.call = "main" THEN <<>>
    ELSE <<[width |-> a.width, height |-> a.height, cells |-> a.height + 1]>>

NoFirst == [cells |-> <<>>, stdout |-> <<>>, frames |-> FALSE]

Init ==
    /\ DirectCall \/ MainCall
    /\ heap = DirectHeap(args)
    /\ objs = DirectObjs(args)
    /\ initial = Len(objs)
    /\ state = 0
    /\ i = 0
    /\ final = 0
    /\ pc = "start"
    /\ stdout = <<>>
    /\ coords = <<>>
    /\ output = <<>>
    /\ run = 1
    /\ first = NoFirst

---------------------------------------------------------------------------
(* The cell values of a grid object, as a list of rows *)

CellsOf(h, self) == [r \in 1 .. Len(h[self.cells]) |-> h[h[self.cells][r]]]

---------------------------------------------------------------------------
(* The loop ranges *)

\* SimulateRange for range(steps + 1)
SimulateRangeInclusive(done, steps) == done < steps + 1

\* for _ in range(steps): whether the loop runs again after done iterations
SimulateRange(done, steps) == done < steps

\* FramesRange for range(1, steps)
FramesRangeShort(step_index, steps) == 1 <= step_index /\ step_index < steps

\* for step_index in range(1, steps + 1): whether step_index is in the range
FramesRange(step_index, steps) == 1 <= step_index /\ step_index < steps + 1

---------------------------------------------------------------------------
(* Actions *)

\* simulate(initial, steps) is entered: state = initial
SimulateCall ==
    /\ pc = "start"
    /\ args.call = "simulate"
    /\ state' = initial
    /\ i' = 0
    /\ pc' = "simulate"
    /\ UNCHANGED <<args, heap, objs, initial, final, stdout, coords, output, run, first>>

\* one iteration of simulate's loop: state = state.step()
SimulateStep ==
    /\ pc = "simulate"
    /\ SimulateRange(i, args.steps)
    /\ LET s == step(heap, objs[state])
       IN  /\ heap' = s.heap
           /\ objs' = Append(objs, s.obj)
           /\ state' = Len(objs) + 1
    /\ i' = i + 1
    /\ UNCHANGED <<args, initial, final, pc, stdout, coords, output, run, first>>

\* range(steps) is exhausted: return state
SimulateReturn ==
    /\ pc = "simulate"
    /\ ~SimulateRange(i, args.steps)
    /\ final' = state
    /\ pc' = "returned"
    /\ UNCHANGED <<args, heap, objs, initial, state, i, stdout, coords, output, run, first>>

\* _run_cli up to its loop or its call of simulate
RunCli ==
    /\ pc = "start"
    /\ args.call = "main"
    /\ LET s == random(heap, args.width, args.height, args.seed)
           ref == Len(objs) + 1
       IN  /\ heap' = s.heap
           /\ objs' = Append(objs, s.obj)
           /\ initial' = ref
           /\ state' = ref
           /\ IF args.frames
              THEN /\ stdout' = Append(stdout, InitialHeader \o render(s.heap, s.obj))
                   /\ pc' = "frames"
              ELSE /\ stdout' = stdout
                   /\ pc' = "simulate"
    /\ i' = 0
    /\ UNCHANGED <<args, final, coords, output, run, first>>

\* one iteration of the frames loop: step, then print the frame
CliFrame ==
    /\ pc = "frames"
    /\ FramesRange(i + 1, args.steps)
    /\ LET s == step(heap, objs[state])
       IN  /\ heap' = s.heap
           /\ objs' = Append(objs, s.obj)
           /\ state' = Len(objs) + 1
           /\ stdout' = Append(stdout, StepHeader(i + 1) \o render(s.heap, s.obj))
    /\ i' = i + 1
    /\ UNCHANGED <<args, initial, final, pc, coords, output, run, first>>

\* range(1, steps + 1) is exhausted: _run_cli returns
CliFramesEnd ==
    /\ pc = "frames"
    /\ ~FramesRange(i + 1, args.steps)
    /\ pc' = "exit"
    /\ UNCHANGED <<args, heap, objs, initial, state, i, final, stdout, coords, output, run, first>>

\* print(final_state.render())
CliPrintFinal ==
    /\ pc = "returned"
    /\ args.call = "main"
    /\ stdout' = Append(stdout, render(heap, objs[final]))
    /\ pc' = "exit"
    /\ UNCHANGED <<args, heap, objs, initial, state, i, final, coords, output, run, first>>

\* list(initial.neighbor_coords(row, col))
NeighborCoords ==
    /\ pc = "start"
    /\ args.call = "neighbor_coords"
    /\ coords' = neighbor_coords(objs[initial], args.row, args.col)
    /\ pc' = "exit"
    /\ UNCHANGED <<args, heap, objs, initial, state, i, final, stdout, output, run, first>>

\* initial.render()
Render ==
    /\ pc = "start"
    /\ args.call = "render"
    /\ output' = render(heap, objs[initial])
    /\ pc' = "exit"
    /\ UNCHANGED <<args, heap, objs, initial, state, i, final, stdout, coords, run, first>>

\* the run is over
Finished ==
    \/ pc = "exit"
    \/ pc = "returned" /\ args.call = "simulate"

\* the grid the run ended with
LastGrid == IF final # 0 THEN final ELSE state

\* a second, independent run of simulate or of the CLI with the same arguments (the CLI
\* with or without --frames)
Rerun ==
    /\ run = 1
    /\ Finished
    /\ args.call \in {"simulate", "main"}
    /\ first' = [cells |-> CellsOf(heap, objs[LastGrid]), stdout |-> stdout, frames |-> args.frames]
    /\ \E f \in BOOLEAN :
          /\ args.call = "main" \/ f = args.frames
          /\ args' = [args EXCEPT !.frames = f]
    /\ heap' = DirectHeap(args)
    /\ objs' = DirectObjs(args)
    /\ initial' = Len(DirectObjs(args))
    /\ state' = 0
    /\ i' = 0
    /\ final' = 0
    /\ pc' = "start"
    /\ stdout' = <<>>
    /\ coords' = <<>>
    /\ output' = <<>>
    /\ run' = 2

Next ==
    \/ SimulateCall
    \/ SimulateStep
    \/ SimulateReturn
    \/ RunCli
    \/ CliFrame
    \/ CliFramesEnd
    \/ CliPrintFinal
    \/ NeighborCoords
    \/ Render
    \/ Rerun

Spec == Init /\ [][Next]_vars

---------------------------------------------------------------------------
(* What the specification says, stated on cell values (a grid value is a   *)
(* list of rows); coordinates are 0-based.                                 *)

\* the references of the grids that exist
Refs == 1 .. Len(objs)

\* the cell values of an existing grid
Grid(ref) == CellsOf(heap, objs[ref])

At(g, row, col) == g[row + 1][col + 1]

IsActive(v) == IF v >= 4 THEN 1 ELSE 0

\* the number of the four wrapped neighbour coordinates whose value is at least 4
ActiveCount(g, row, col) ==
    LET ht == Len(g)
        w  == Len(g[1])
    IN  IsActive(At(g, (row - 1) % ht, col)) + IsActive(At(g, (row + 1) % ht, col))
        + IsActive(At(g, row, (col - 1) % w)) + IsActive(At(g, row, (col + 1) % w))

\* the transition rule of a cell
Rule(current, a) ==
    CASE a >= 2 -> (current + 1) % 7
      [] a = 0  -> (current + 6) % 7
      [] a = 1  -> current

\* the grid one synchronous step after g
RuleGrid(g) ==
    [r \in 1 .. Len(g) |-> [c \in 1 .. Len(g[1]) |-> Rule(g[r][c], ActiveCount(g, r - 1, c - 1))]]

RECURSIVE Iterate(_, _)
\* the grid n synchronous steps after g
Iterate(g, n) == IF n = 0 THEN g ELSE RuleGrid(Iterate(g, n - 1))

\* a transition in which step was applied to the grid `state` refers to
Stepped == state # 0 /\ Len(objs') = Len(objs) + 1

---------------------------------------------------------------------------
\* C1 (range invariant): starting from a grid whose cells all lie in 0..6, every
\* cell of every grid that any number of steps has produced, and so of the grid
\* simulate returns, lies in 0..6.
C1_RangeInvariant ==
    \A ref \in Refs :
        \A r \in 1 .. Len(Grid(ref)) : \A c \in 1 .. Len(Grid(ref)[r]) :
            Grid(ref)[r][c] \in 0 .. 6

\* simulate has returned after at least two steps, one in which a cell wrapped from 6
\* to 0 and one in which a cell wrapped from 0 to 6
C1_Witness ==
    /\ args.call = "simulate"
    /\ pc = "returned"
    /\ i >= 2
    /\ \E k \in 1 .. Len(objs) - 1 : \E r \in 1 .. args.height, c \in 1 .. args.width :
          Grid(k)[r][c] = 6 /\ Grid(k + 1)[r][c] = 0
    /\ \E k \in 1 .. Len(objs) - 1 : \E r \in 1 .. args.height, c \in 1 .. args.width :
          Grid(k)[r][c] = 0 /\ Grid(k + 1)[r][c] = 6

---------------------------------------------------------------------------
\* C2 (dimension preservation): after every step, and when simulate returns, every
\* grid has the width and height of the initial grid, and its cells are exactly
\* height rows of exactly width columns.
C2_DimensionPreservation ==
    \A ref \in Refs :
        /\ objs[ref].width = args.width
        /\ objs[ref].height = args.height
        /\ Len(heap[objs[ref].cells]) = args.height
        /\ \A r \in 1 .. Len(heap[objs[ref].cells]) :
              Len(heap[heap[objs[ref].cells][r]]) = args.width

\* simulate has returned a grid other than the initial one, of a shape that is not square
C2_Witness ==
    /\ args.call = "simulate"
    /\ pc = "returned"
    /\ final # initial
    /\ i >= 2
    /\ objs[final].width = 3
    /\ objs[final].height = 1
    /\ Len(heap[objs[final].cells]) = 1
    /\ Len(heap[heap[objs[final].cells][1]]) = 3

---------------------------------------------------------------------------
\* C3 (synchronous transition rule): every application of step yields a grid in
\* which each cell is the rule applied to the values the input grid held before the
\* step: (current + 1) mod 7 with two or more active wrapped neighbours, (current - 1)
\* mod 7 (non-negative) with none, current with exactly one; no value written for the
\* new grid is read.
C3_SynchronousRule ==
    [][Stepped => CellsOf(heap', objs'[Len(objs')]) = RuleGrid(CellsOf(heap, objs[state]))]_vars

\* step has produced, from one grid, a cell incremented, a cell decremented (2 to 1, or
\* 0 to 6) and a cell left unchanged by exactly one active neighbour
C3_Witness ==
    /\ Len(objs) >= 2
    /\ \E k \in 1 .. Len(objs) - 1 :
          /\ \E r \in 1 .. args.height, c \in 1 .. args.width :
                /\ ActiveCount(Grid(k), r - 1, c - 1) >= 2
                /\ Grid(k + 1)[r][c] = (Grid(k)[r][c] + 1) % 7
          /\ \E r \in 1 .. args.height, c \in 1 .. args.width :
                /\ ActiveCount(Grid(k), r - 1, c - 1) = 0
                /\ Grid(k)[r][c] \in {0, 2}
                /\ Grid(k + 1)[r][c] = IF Grid(k)[r][c] = 0 THEN 6 ELSE 1
          /\ \E r \in 1 .. args.height, c \in 1 .. args.width :
                /\ ActiveCount(Grid(k), r - 1, c - 1) = 1
                /\ Grid(k + 1)[r][c] = Grid(k)[r][c]

---------------------------------------------------------------------------
\* C4 (wraparound): neighbor_coords(row, col) yields exactly four pairs, north, south,
\* west, east in this order, ((row -/+ 1) mod height, col) and (row, (col -/+ 1) mod
\* width), each inside the grid, so that the neighbour of a boundary cell is the cell
\* on the opposite edge; coinciding coordinates count once per direction: the 1x1 grid
\* holding 4 steps to 5, and in the 1x2 grid [0, 4] the cell 0, whose west and east
\* neighbour are both the cell 4, steps to 1.
C4_Wraparound ==
    /\ (args.call = "neighbor_coords" /\ pc = "exit") =>
          LET ht == args.height
              w == args.width
              row == args.row
              col == args.col
          IN  /\ Len(coords) = 4
              /\ coords[1] = <<(row - 1) % ht, col>>
              /\ coords[2] = <<(row + 1) % ht, col>>
              /\ coords[3] = <<row, (col - 1) % w>>
              /\ coords[4] = <<row, (col + 1) % w>>
              /\ coords[1][1] = (IF row = 0 THEN ht - 1 ELSE row - 1)
              /\ coords[2][1] = (IF row = ht - 1 THEN 0 ELSE row + 1)
              /\ coords[3][2] = (IF col = 0 THEN w - 1 ELSE col - 1)
              /\ coords[4][2] = (IF col = w - 1 THEN 0 ELSE col + 1)
              /\ \A k \in 1 .. 4 : coords[k][1] \in 0 .. ht - 1 /\ coords[k][2] \in 0 .. w - 1
              /\ (ht = 1 /\ w = 1) => \A k \in 1 .. 4 : coords[k] = <<0, 0>>
    /\ (args.call = "simulate" /\ args.cells = << <<4>> >> /\ Len(objs) >= 2) =>
          Grid(2) = << <<5>> >>
    /\ (args.call = "simulate" /\ args.cells = << <<0, 4>> >> /\ Len(objs) >= 2) =>
          Grid(2)[1][1] = 1

\* neighbor_coords has answered for the top right corner of a grid at least three
\* columns wide and two rows high: north and east wrap to the opposite edges
C4_Witness ==
    /\ args.call = "neighbor_coords"
    /\ pc = "exit"
    /\ args.width >= 3
    /\ args.height >= 2
    /\ args.row = 0
    /\ args.col = args.width - 1
    /\ coords[1] = <<args.height - 1, args.col>>
    /\ coords[4] = <<0, 0>>
    /\ coords[3] # coords[4]

---------------------------------------------------------------------------
\* the list objects a grid is stored in: its list of rows and each row
Storage(h, self) == {self.cells} \cup {h[self.cells][r] : r \in 1 .. Len(h[self.cells])}

\* C5 (step does not mutate its input): across every application of step to a grid g,
\* g's width, height and cells and every element of g's rows are unchanged, and the grid
\* returned is a new instance stored in lists none of which is a list of g.
C5_StepDoesNotMutate ==
    [][Stepped =>
          /\ objs'[state] = objs[state]
          /\ \A a \in Storage(heap, objs[state]) : heap'[a] = heap[a]
          /\ CellsOf(heap', objs'[state]) = CellsOf(heap, objs[state])
          /\ state' \notin Refs
          /\ state' = Len(objs')
          /\ Storage(heap', objs'[state']) \cap Storage(heap, objs[state]) = {}
          /\ Cardinality(Storage(heap', objs'[state'])) = objs[state].height + 1
      ]_vars

\* step has returned a grid with a row holding the same values as the same row of its
\* input, stored in another list, and the input still holds the values it was built with
C5_Witness ==
    /\ args.call = "simulate"
    /\ Len(objs) >= 2
    /\ Grid(1) = args.cells
    /\ Grid(2) # Grid(1)
    /\ \E r \in 1 .. args.height :
          /\ Grid(2)[r] = Grid(1)[r]
          /\ heap[objs[2].cells][r] # heap[objs[1].cells][r]
    /\ Storage(heap, objs[1]) \cap Storage(heap, objs[2]) = {}

---------------------------------------------------------------------------
\* C6 (simulate): simulate(initial, steps) applies step exactly steps times, each output
\* the input of the next: the grid returned holds the values steps synchronous steps
\* after initial's; with steps = 0 they are initial's own values.
C6_SimulateIterates ==
    pc = "returned" =>
        /\ i = args.steps
        /\ Len(objs) = args.steps + 1
        /\ final = initial + args.steps
        /\ \A k \in 1 .. args.steps : Grid(initial + k) = RuleGrid(Grid(initial + k - 1))
        /\ Grid(final) = Iterate(Grid(initial), args.steps)
        /\ args.call = "simulate" => Grid(final) = Iterate(args.cells, args.steps)
        /\ args.steps = 0 => Grid(final) = Grid(initial)

\* simulate has returned after three steps a grid that differs from the initial grid
\* and from the grids one and two steps after it
C6_Witness ==
    /\ args.call = "simulate"
    /\ pc = "returned"
    /\ args.steps = 3
    /\ Grid(final) = RuleGrid(RuleGrid(RuleGrid(args.cells)))
    /\ Grid(final) # args.cells
    /\ Grid(final) # RuleGrid(args.cells)
    /\ Grid(final) # RuleGrid(RuleGrid(args.cells))

---------------------------------------------------------------------------
\* AutomatonState.random(4, 3, seed = 1) and then simulate(_, 3), as the test pins it
PinnedCells == << <<4, 4, 2, 5>>, <<5, 3, 2, 3>>, <<6, 1, 4, 5>> >>

---------------------------------------------------------------------------
\* the s-th character of the palette " .:=*#@"
PaletteChar(s) ==
    CASE s = 0 -> " " [] s = 1 -> "." [] s = 2 -> ":" [] s = 3 -> "="
      [] s = 4 -> "*" [] s = 5 -> "#" [] s = 6 -> "@"

\* the text of grid g: Len(g) lines of Len(g[1]) characters, a newline between two lines
RenderText(g) ==
    LET w == Len(g[1])
    IN  [p \in 1 .. (Len(g) * (w + 1) - 1) |->
            IF p % (w + 1) = 0 THEN "\n"
            ELSE PaletteChar(g[((p - 1) \div (w + 1)) + 1][((p - 1) % (w + 1)) + 1])]

\* C8 (render): render returns height lines of width characters each, joined by single
\* newlines with no trailing newline, the character at line r, position c being the
\* cells[r][c]-th character of " .:=*#@" ([0, 3, 6] renders as " =@"), and leaves the
\* grid unchanged.
C8_Render ==
    (args.call = "render" /\ pc = "exit") =>
        LET g == args.cells
            ht == args.height
            w == args.width
        IN  /\ Len(output) = ht * w + (ht - 1)
            /\ \A r \in 0 .. ht - 1 : \A c \in 0 .. w - 1 :
                  output[r * (w + 1) + c + 1] = PaletteChar(g[r + 1][c + 1])
            /\ \A r \in 0 .. ht - 2 : output[r * (w + 1) + w + 1] = "\n"
            /\ output = RenderText(g)
            /\ g = << <<0, 3, 6>> >> => output = <<" ", "=", "@">>
            /\ heap = DirectHeap(args)
            /\ objs = DirectObjs(args)
            /\ Grid(initial) = g

\* render has returned the text of a grid of several rows and several columns
C8_Witness ==
    /\ args.call = "render"
    /\ pc = "exit"
    /\ args.height = 2
    /\ args.width = 3
    /\ Len(output) = 7
    /\ output[4] = "\n"
    /\ output[7] # "\n"
    /\ output[1] = "#"

---------------------------------------------------------------------------
\* the text of the frame printed for step k (k = 0: the initial grid)
FrameText(k, g) == (IF k = 0 THEN InitialHeader ELSE StepHeader(k)) \o RenderText(g)

\* C9 (the CLI's frames loop is equivalent to simulate): with --frames the CLI prints
\* exactly steps + 1 frames, the initial grid and then Step 1 .. Step steps in this
\* order, the frame of step k being the rendering of simulate(initial, k); without it
\* the only output is the rendering of simulate(initial, steps), the same grid as the
\* last frame of a run with --frames on the same arguments.
C9_FramesEquivalence ==
    /\ (args.call = "main" /\ args.frames /\ pc \in {"frames", "exit"}) =>
          /\ Len(stdout) = i + 1
          /\ \A k \in 0 .. i : stdout[k + 1] = FrameText(k, Iterate(Grid(initial), k))
    /\ (args.call = "main" /\ args.frames /\ pc = "exit") => Len(stdout) = args.steps + 1
    /\ (args.call = "main" /\ ~args.frames /\ pc = "exit") =>
          stdout = <<RenderText(Iterate(Grid(initial), args.steps))>>
    /\ (run = 2 /\ pc = "exit" /\ args.frames /\ ~first.frames) =>
          /\ Len(first.stdout) = 1
          /\ stdout[Len(stdout)] =
                (IF args.steps = 0 THEN InitialHeader ELSE StepHeader(args.steps))
                \o first.stdout[1]
          /\ Grid(LastGrid) = first.cells
    /\ (run = 2 /\ pc = "exit" /\ ~args.frames /\ first.frames) =>
          /\ Len(stdout) = 1
          /\ first.stdout[Len(first.stdout)] =
                (IF args.steps = 0 THEN InitialHeader ELSE StepHeader(args.steps))
                \o stdout[1]
          /\ Grid(LastGrid) = first.cells

\* a run with --frames over three steps has printed four frames, the last one the only
\* output of the earlier run without --frames
C9_Witness ==
    /\ run = 2
    /\ pc = "exit"
    /\ args.frames
    /\ ~first.frames
    /\ args.steps = 3
    /\ args.width >= 2
    /\ args.height >= 2
    /\ Len(stdout) = 4
    /\ Len(first.stdout) = 1
    /\ stdout[4] = StepHeader(3) \o first.stdout[1]
    /\ stdout[4] # StepHeader(3) \o RenderText(Grid(initial))

---------------------------------------------------------------------------
\* every cell of g holds v
IsUniform(g, v) == \A r \in 1 .. Len(g) : \A c \in 1 .. Len(g[r]) : g[r][c] = v

\* C10 (uniform grids): a uniform grid of value v steps to the uniform grid of value
\* (v + 1) mod 7 when v >= 4 and (v - 1) mod 7 when v < 4, so it is no fixed point; from
\* a uniform grid the simulation is, after three steps and ever after, in the cycle
\* that alternates between the all-0 grid and the all-6 grid.
C10_UniformGrids ==
    /\ \A k \in 1 .. Len(objs) - 1 : \A v \in 0 .. 6 :
          IsUniform(Grid(k), v) =>
              /\ IsUniform(Grid(k + 1), IF v >= 4 THEN (v + 1) % 7 ELSE (v + 6) % 7)
              /\ Grid(k + 1) # Grid(k)
    /\ (Len(objs) >= 1 /\ \E v \in 0 .. 6 : IsUniform(Grid(1), v)) =>
          /\ \A k \in 4 .. Len(objs) : IsUniform(Grid(k), 0) \/ IsUniform(Grid(k), 6)
          /\ \A k \in 1 .. Len(objs) - 1 :
                /\ IsUniform(Grid(k), 0) => IsUniform(Grid(k + 1), 6)
                /\ IsUniform(Grid(k), 6) => IsUniform(Grid(k + 1), 0)

\* four steps from the all-3 grid of several rows and columns: all-0 after the third
\* step, all-6 after the fourth
C10_Witness ==
    /\ args.call = "simulate"
    /\ args.width >= 3
    /\ args.height >= 2
    /\ Len(objs) = 5
    /\ IsUniform(Grid(1), 3)
    /\ IsUniform(Grid(2), 2)
    /\ IsUniform(Grid(3), 1)
    /\ IsUniform(Grid(4), 0)
    /\ IsUniform(Grid(5), 6)

===========================================================================
